---- MODULE Spec2Model ----
(***************************************************************************)
(* A model of libpac (src/libpac/pac.py): the PAC archive codec.  Bytes    *)
(* are numbers 0..255, byte strings are sequences of bytes, and text is a  *)
(* sequence of character codes.  Every operation of pac.py is an operator  *)
(* computed on bytes as the code computes it, and an action applies it to  *)
(* the files on disk.  A Python exception is the value of `err`.           *)
(***************************************************************************)
EXTENDS Integers, Sequences, FiniteSets, TLC

VARIABLES
    dir_files,    \* the source directory: a sequence of [name, data], in os.listdir order
    layout,       \* the (string_size, entry_size) handed to _build_file_entries
    pac,          \* the bytes of the archive file (or of the header input)
    src_entries,  \* what the author of a foreign archive stored in its directory
    pc,           \* which operation has run
    err,          \* the exception the last operation raised, or "ok"
    built,        \* what create_pac computed on the way
    hdr,          \* what _parse_header returned
    file_list,    \* what _enumerate_files returned
    ext_filter,   \* the extract_filter extract_pac was called with
    written       \* the files _extract_files wrote, in order: [name, data]

vars == <<dir_files, layout, pac, src_entries, pc, err, built, hdr, file_list,
          ext_filter, written>>

----------------------------------------------------------------------------
(* Program constants *)

PAC_PREFIX == <<70, 80, 65, 67>>
PAC_HEADER_SIZE == 32
INT_SIZE == 4
BLOCK_SIZE == 4 * INT_SIZE

----------------------------------------------------------------------------
(* Bounds of the model *)

MaxFiles == 2          \* files in the source directory
MaxNameLen == 13       \* longest base name in the source directory
MaxFileSize == 2       \* bytes in a source file
MaxLayoutNameLen == 24 \* longest base name given to the layout derivation alone
MaxDataStart == 70     \* data_start of a header input
MaxFileCount == 4      \* file_count of a header input
MaxEntries == 2        \* entries of a foreign archive
MaxStringSize == 12    \* string_size handed to _build_file_entries directly

----------------------------------------------------------------------------
(* Python and struct primitives *)

Min(a, b) == IF a < b THEN a ELSE b
Max(a, b) == IF a > b THEN a ELSE b

Zeros(n) == [i \in 1..n |-> 0]

(* An index of a slice s[a:b], as Python clamps it to 0..len(s). *)
PyIndex(i, n) == IF i < 0 THEN Max(i + n, 0) ELSE Min(i, n)

(* s[a:b] *)
PySlice(s, a, b) ==
    LET lo == PyIndex(a, Len(s))
        hi == PyIndex(b, Len(s))
    IN  IF hi <= lo THEN <<>> ELSE SubSeq(s, lo + 1, hi)

(* s[a:] *)
PySliceFrom(s, a) == PySlice(s, a, Len(s))

(* s.startswith(p) *)
StartsWith(s, p) == Len(s) >= Len(p) /\ SubSeq(s, 1, Len(p)) = p

(* struct.pack("I", v): four bytes, least significant first. *)
PackI(v) ==
    << v % 256, (v \div 256) % 256, (v \div 65536) % 256, (v \div 16777216) % 256 >>

(* struct.unpack("I", b[at : at + 4]), `at` counted from 0. *)
UnpackI(b, at) ==
    b[at + 1] + 256 * b[at + 2] + 65536 * b[at + 3] + 16777216 * b[at + 4]

RECURSIVE PackInts(_)
PackInts(vs) ==
    IF vs = <<>> THEN <<>> ELSE PackI(Head(vs)) \o PackInts(Tail(vs))

(* struct.pack("<n>s", b): b cut or null-padded to n bytes. *)
PackS(n, b) == PySlice(b, 0, n) \o Zeros(n - Len(b))

(* Where the first "I" of "<n>sI.." starts: native alignment to INT_SIZE. *)
AlignInt(n) == IF n % INT_SIZE = 0 THEN n ELSE n + (INT_SIZE - (n % INT_SIZE))

(* struct.calcsize of the format "<str>s" + "I" * ints *)
CalcSize(fmt) ==
    IF fmt.ints = 0 THEN fmt.str ELSE AlignInt(fmt.str) + INT_SIZE * fmt.ints

(* bytes.rstrip(b"\x00") *)
RECURSIVE RStripNul(_)
RStripNul(b) ==
    IF b # <<>> /\ b[Len(b)] = 0 THEN RStripNul(SubSeq(b, 1, Len(b) - 1)) ELSE b

(* str.encode("latin-1") / bytes.decode("latin-1"): code point = byte. *)
Latin1Encodable(name) == \A i \in 1..Len(name) : name[i] \in 0..255
Latin1Encode(name) == [i \in 1..Len(name) |-> name[i] % 256]
Latin1Decode(b) == [i \in 1..Len(b) |-> b[i]]

----------------------------------------------------------------------------
(* Exceptions *)

ErrMagic == "ValueError: Not a valid PAC file!"
ErrEntrySize == "ValueError: Invalid file entry size"
ErrFormat == "ValueError: File entry size mismatch with string size!"
ErrNameTooLong == "ValueError: Name too long!"
ErrTotalSize == "ValueError: Invalid PAC file generated!"
ErrExtension == "ValueError: Must have .pac extension for PAC files!"

(* The format error of the specification is Python's ValueError. *)
FormatErrors ==
    {ErrMagic, ErrEntrySize, ErrFormat, ErrNameTooLong, ErrTotalSize, ErrExtension}

----------------------------------------------------------------------------
(* The writer *)

(* The scan for the longest base name in the for loop of _parse_file_list. *)
RECURSIVE LongestName(_, _)
LongestName(files, string_size) ==
    IF files = <<>> THEN string_size
    ELSE LET name_len == Len(Head(files).name)
         IN  LongestName(Tail(files),
                         IF name_len > string_size THEN name_len ELSE string_size)

(* total_file_size: the sum of os.path.getsize over the list. *)
RECURSIVE TotalFileSize(_)
TotalFileSize(files) ==
    IF files = <<>> THEN 0 ELSE Len(Head(files).data) + TotalFileSize(Tail(files))

(* string_size made a multiple of INT_SIZE. *)
AlignStringSize(string_size) ==
    LET remainder == string_size % INT_SIZE
    IN  IF remainder # 0 THEN string_size + (INT_SIZE - remainder) ELSE string_size

BadLoopCond(entry_size, double_string) == entry_size < double_string

(* The condition of the while loop that grows entry_size. *)
LoopCond(entry_size, double_string) ==
    entry_size < double_string \/ entry_size % BLOCK_SIZE # 0

(* The while loop; iters counts its iterations. *)
RECURSIVE EntrySizeLoop(_, _, _)
EntrySizeLoop(entry_size, double_string, iters) ==
    IF LoopCond(entry_size, double_string)
    THEN EntrySizeLoop(entry_size + INT_SIZE, double_string, iters + 1)
    ELSE [entry_size |-> entry_size, iters |-> iters]

(* parsed_file_list: (file_name, name_len, file_size) of each file. *)
ParsedFileList(files) ==
    [i \in 1..Len(files) |->
        [file_name |-> files[i].name,
         name_len  |-> Len(files[i].name),
         file_size |-> Len(files[i].data)]]

ParseFileList(files) ==
    LET string_size == AlignStringSize(LongestName(files, 0))
        loop == EntrySizeLoop(string_size, 2 * string_size, 0)
    IN  [string_size      |-> string_size,
         file_count       |-> Len(files),
         entry_size       |-> loop.entry_size,
         iters            |-> loop.iters,
         total_file_size  |-> TotalFileSize(files),
         parsed_file_list |-> ParsedFileList(files)]

(* Every number of the model is far below 2^32, so struct.pack never raises
   for a value out of the range of "I". *)
BuildHeader(total_size, data_start, string_size, file_count) ==
    LET first == <<data_start, total_size, file_count>>
        meta  == <<1, string_size, 0, 0>>
    IN  PAC_PREFIX \o PackInts(first) \o PackInts(meta)

(* The format "<string_size>s" + "I" * num_ints, as its two counts. *)
GetFormat(string_size, entry_size) ==
    IF (entry_size - string_size) % INT_SIZE # 0
    THEN [err |-> ErrFormat, str |-> 0, ints |-> 0]
    ELSE [err  |-> "ok",
          str  |-> string_size,
          ints |-> Max((entry_size - string_size) \div INT_SIZE, 0)]

(* int(a / b) for b > 0: Python truncates toward zero. *)
IntTrunc(a, b) == IF a >= 0 THEN a \div b ELSE 0 - ((0 - a) \div b)

(* pad = (0,) * int(pad_length / INT_SIZE); a negative count gives (). *)
Pad(string_size, entry_size) ==
    LET pad_length == entry_size - string_size - (3 * INT_SIZE)
    IN  Zeros(IntTrunc(pad_length, INT_SIZE))

(* struct.pack(fmt, name, *ints): the argument count must be the format's. *)
PackEntry(fmt, name_bytes, ints) ==
    IF Len(ints) # fmt.ints
    THEN [err |-> "struct.error", bytes |-> <<>>]
    ELSE [err   |-> "ok",
          bytes |-> PackS(fmt.str, name_bytes)
                    \o Zeros(AlignInt(fmt.str) - fmt.str)
                    \o PackInts(ints)]

BadNextOffset(file_offset, file_size) == file_offset + file_size + 1

(* file_offset += file_size *)
NextOffset(file_offset, file_size) == file_offset + file_size

(* The name of an entry, null-padded when shorter than string_size. *)
NameBytes(file_name, name_len, string_size) ==
    IF name_len < string_size
    THEN Latin1Encode(file_name) \o Zeros(string_size - name_len)
    ELSE Latin1Encode(file_name)

(* The for loop of _build_file_entries. *)
RECURSIVE EntriesLoop(_, _, _, _, _, _)
EntriesLoop(rest, fmt, string_size, pad, ctr, file_entries) ==
    IF rest = <<>> THEN [err |-> "ok", bytes |-> file_entries]
    ELSE LET f == Head(rest)
             packed == PackEntry(fmt,
                                 NameBytes(f.file_name, f.name_len, string_size),
                                 <<ctr.file_id, ctr.file_offset, f.file_size>> \o pad)
         IN  IF ~Latin1Encodable(f.file_name)
             THEN [err |-> "UnicodeEncodeError", bytes |-> <<>>]
             ELSE IF f.name_len > string_size
             THEN [err |-> ErrNameTooLong, bytes |-> <<>>]
             ELSE IF packed.err # "ok"
             THEN [err |-> packed.err, bytes |-> <<>>]
             ELSE EntriesLoop(Tail(rest), fmt, string_size, pad,
                              [file_id     |-> ctr.file_id + 1,
                               file_offset |-> NextOffset(ctr.file_offset, f.file_size)],
                              file_entries \o packed.bytes)

BuildFileEntries(parsed_file_list, string_size, entry_size) ==
    LET fmt == GetFormat(string_size, entry_size)
    IN  IF fmt.err # "ok" THEN [err |-> fmt.err, bytes |-> <<>>]
        ELSE EntriesLoop(parsed_file_list, fmt, string_size,
                         Pad(string_size, entry_size),
                         [file_id |-> 0, file_offset |-> 0], <<>>)

(* The contents of the files, appended in list order. *)
RECURSIVE BuildFileContents(_)
BuildFileContents(files) ==
    IF files = <<>> THEN <<>> ELSE Head(files).data \o BuildFileContents(Tail(files))

BadDataStart(file_count, entry_size) == file_count * entry_size

(* data_start = PAC_HEADER_SIZE + (file_count * entry_size) *)
DataStart(file_count, entry_size) == PAC_HEADER_SIZE + (file_count * entry_size)

PacSuffix == <<46, 112, 97, 99>>

(* out_file.endswith(".pac") *)
EndsWithPac(out_file) ==
    Len(out_file) >= Len(PacSuffix)
    /\ SubSeq(out_file, Len(out_file) - Len(PacSuffix) + 1, Len(out_file)) = PacSuffix

(* create_pac, up to the write of the archive: what it computed, the bytes it
   assembled and the exception it raised.  out_file is "None" or a path. *)
CreatePacResult(files, out_file) ==
    LET p == ParseFileList(files)
        data_start == DataStart(p.file_count, p.entry_size)
        total_size == data_start + p.total_file_size
        header == BuildHeader(total_size, data_start, p.string_size, p.file_count)
        entries == BuildFileEntries(p.parsed_file_list, p.string_size, p.entry_size)
        pac_contents == header \o entries.bytes \o BuildFileContents(files)
        computed == [string_size     |-> p.string_size,
                     file_count      |-> p.file_count,
                     entry_size      |-> p.entry_size,
                     iters           |-> p.iters,
                     total_file_size |-> p.total_file_size,
                     data_start      |-> data_start,
                     total_size      |-> total_size,
                     file_entries    |-> entries.bytes]
        error == IF entries.err # "ok" THEN entries.err
                 ELSE IF Len(pac_contents) # total_size THEN ErrTotalSize
                 ELSE IF out_file # "None" /\ ~EndsWithPac(out_file) THEN ErrExtension
                 ELSE "ok"
    IN  [err |-> error, built |-> computed, bytes |-> pac_contents]

----------------------------------------------------------------------------
(* The reader *)

HeaderFailure(e) ==
    [err |-> e, data_start |-> 0, string_size |-> 0, file_count |-> 0,
     entry_size |-> 0, remaining |-> <<>>]

(* _unpack_from needs the whole of its format in the data. *)
ParseHeader(pac_contents) ==
    LET after_prefix == PySliceFrom(pac_contents, Len(PAC_PREFIX))
        after_first  == PySliceFrom(after_prefix, 3 * INT_SIZE)
        remaining    == PySliceFrom(after_first, 4 * INT_SIZE)
    IN  IF ~StartsWith(pac_contents, PAC_PREFIX) THEN HeaderFailure(ErrMagic)
        ELSE IF Len(after_prefix) < 3 * INT_SIZE THEN HeaderFailure("struct.error")
        ELSE IF Len(after_first) < 4 * INT_SIZE THEN HeaderFailure("struct.error")
        ELSE LET data_start  == UnpackI(after_prefix, 0)
                 file_count  == UnpackI(after_prefix, 2 * INT_SIZE)
                 string_size == UnpackI(after_first, INT_SIZE)
             IN  IF file_count = 0 THEN HeaderFailure("ZeroDivisionError")
                 ELSE IF (data_start - PAC_HEADER_SIZE) % file_count # 0
                 THEN HeaderFailure(ErrEntrySize)
                 ELSE [err         |-> "ok",
                       data_start  |-> data_start,
                       string_size |-> string_size,
                       file_count  |-> file_count,
                       entry_size  |-> (data_start - PAC_HEADER_SIZE) \div file_count,
                       remaining   |-> remaining]

(* struct.unpack(fmt, entry_data) and the reads of unpacked[0..3]. *)
UnpackEntry(fmt, entry_data) ==
    IF Len(entry_data) # CalcSize(fmt) THEN [err |-> "struct.error"]
    ELSE IF fmt.ints < 3 THEN [err |-> "IndexError"]
    ELSE [err   |-> "ok",
          entry |-> [file_name   |-> Latin1Decode(RStripNul(PySlice(entry_data, 0, fmt.str))),
                     file_id     |-> UnpackI(entry_data, AlignInt(fmt.str)),
                     file_offset |-> UnpackI(entry_data, AlignInt(fmt.str) + INT_SIZE),
                     file_size   |-> UnpackI(entry_data, AlignInt(fmt.str) + 2 * INT_SIZE)]]

(* offset = file_index * entry_size *)
EntryOffset(file_index, entry_size) == file_index * entry_size

(* The for loop of _enumerate_files. *)
RECURSIVE EnumerateLoop(_, _, _, _, _, _)
EnumerateLoop(pac_contents, fmt, file_index, file_count, entry_size, acc) ==
    IF file_index >= file_count THEN [err |-> "ok", file_list |-> acc]
    ELSE LET offset == EntryOffset(file_index, entry_size)
             unpacked == UnpackEntry(fmt, PySlice(pac_contents, offset, offset + entry_size))
         IN  IF unpacked.err # "ok" THEN [err |-> unpacked.err, file_list |-> <<>>]
             ELSE EnumerateLoop(pac_contents, fmt, file_index + 1, file_count,
                                entry_size, Append(acc, unpacked.entry))

EnumerateFiles(pac_contents, file_count, string_size, entry_size) ==
    LET fmt == GetFormat(string_size, entry_size)
    IN  IF fmt.err # "ok" THEN [err |-> fmt.err, file_list |-> <<>>]
        ELSE EnumerateLoop(pac_contents, fmt, 0, file_count, entry_size, <<>>)

(* enumerate_pac *)
EnumeratePacResult(pac_contents) ==
    LET h == ParseHeader(pac_contents)
    IN  IF h.err # "ok" THEN [err |-> h.err, file_list |-> <<>>]
        ELSE EnumerateFiles(h.remaining, h.file_count, h.string_size, h.entry_size)

(* An extract_filter: None, or a predicate, given by the entries it accepts. *)
NoFilter == [given |-> FALSE, accepts |-> {}]
Accepting(S) == [given |-> TRUE, accepts |-> S]

Accepted(e, extract_filter) == e \in extract_filter.accepts

BadApplyFilter(entries, extract_filter) == entries

(* filter(extract_filter, file_list) when a filter is given *)
ApplyFilter(entries, extract_filter) ==
    IF extract_filter.given
    THEN SelectSeq(entries, LAMBDA e : Accepted(e, extract_filter))
    ELSE entries

BadFileData(data_contents, file_offset, file_size) ==
    PySlice(data_contents, file_offset, file_size)

(* file_data = pac_contents[file_offset:file_offset+file_size] *)
FileData(data_contents, file_offset, file_size) ==
    PySlice(data_contents, file_offset, file_offset + file_size)

(* _extract_files: the files written, in order. *)
ExtractFiles(data_contents, entries, extract_filter) ==
    LET kept == ApplyFilter(entries, extract_filter)
    IN  [i \in 1..Len(kept) |->
            [name |-> kept[i].file_name,
             data |-> FileData(data_contents, kept[i].file_offset, kept[i].file_size)]]

(* extract_pac, for a filter that is None or callable and an out_dir that can be
   written. *)
ExtractPacResult(pac_contents, extract_filter) ==
    LET h == ParseHeader(pac_contents)
        e == EnumerateFiles(h.remaining, h.file_count, h.string_size, h.entry_size)
    IN  IF h.err # "ok" THEN [err |-> h.err, file_list |-> <<>>, written |-> <<>>]
        ELSE IF e.err # "ok" THEN [err |-> e.err, file_list |-> <<>>, written |-> <<>>]
        ELSE [err       |-> "ok",
              file_list |-> e.file_list,
              written   |-> ExtractFiles(PySliceFrom(pac_contents, h.data_start),
                                         e.file_list, extract_filter)]

----------------------------------------------------------------------------
(* Inputs *)

Range(s) == {s[i] : i \in 1..Len(s)}

(* A base name of n characters; names of different lengths differ. *)
NameOf(n) == [i \in 1..n |-> 97 + (n % 26)]

(* File contents of `size` bytes that differ from file to file. *)
DataOf(n, size) == [i \in 1..size |-> (16 * n + i) % 256]

FileOf(n, size) == [name |-> NameOf(n), data |-> DataOf(n, size)]

(* Sequences of at most k elements of S whose names differ. *)
DistinctLists(S, k) ==
    UNION {{fl \in [1..m -> S] :
               \A i, j \in 1..m : i # j => fl[i].name # fl[j].name} : m \in 0..k}

(* Name lengths on both sides of every multiple of INT_SIZE. *)
NameLens == {n \in 1..MaxNameLen : n % INT_SIZE \in {0, 1}}

FileLists ==
    DistinctLists({FileOf(n, size) : n \in NameLens, size \in 0..MaxFileSize}, MaxFiles)

(* The directory of the scenario: a.txt holding "abc", bb.txt holding "xy". *)
ATxt == <<97, 46, 116, 120, 116>>
BbTxt == <<98, 98, 46, 116, 120, 116>>
ScenarioFiles ==
    << [name |-> ATxt, data |-> <<97, 98, 99>>],
       [name |-> BbTxt, data |-> <<120, 121>>] >>

OutFiles == {"None", <<111>> \o PacSuffix, <<111, 46, 98, 105, 110>>}

LayoutFileLists ==
    DistinctLists({FileOf(n, 0) : n \in 1..MaxLayoutNameLen}, MaxFiles)

EntryFileLists ==
    DistinctLists({FileOf(n, 1) : n \in NameLens}, MaxFiles)

EntryLayouts ==
    {[string_size |-> s, entry_size |-> s + d] :
        s \in 0..MaxStringSize, d \in {0, 2, 4, 8, 12, 16, 20}}

(* Header inputs: a whole header, one with trailing bytes, one cut inside the
   second group of integers, one cut inside the first, one with another prefix. *)
HeaderBytes(data_start, file_count) ==
    PAC_PREFIX \o PackInts(<<data_start, 0, file_count, 1, 4, 0, 0>>)

HeaderInputs ==
    UNION {LET h == HeaderBytes(d, c)
           IN  {h, h \o <<1, 2, 3>>, SubSeq(h, 1, 20), SubSeq(h, 1, 10),
                <<80>> \o Tail(h)} :
           d \in 0..MaxDataStart, c \in 0..MaxFileCount}

(* Foreign archives: any directory an author may store, with offsets that leave
   gaps, overlap, run backwards or past the end of the payload. *)
Payload == <<201, 202, 203, 204, 205>>
ForeignNames == {<<65>>, <<66>>}
ForeignOffsets == {0, 1, 4}
ForeignSizes == {0, 2}
ForeignLayouts ==
    {[string_size |-> 4, entry_size |-> 16], [string_size |-> 4, entry_size |-> 20]}

ForeignEntries ==
    {[file_name |-> n, file_id |-> 5, file_offset |-> o, file_size |-> z] :
        n \in ForeignNames, o \in ForeignOffsets, z \in ForeignSizes}

ForeignDirectories == UNION {[1..m -> ForeignEntries] : m \in 0..MaxEntries}

RECURSIVE ForeignEntryBytes(_, _)
ForeignEntryBytes(l, entries) ==
    IF entries = <<>> THEN <<>>
    ELSE LET e == Head(entries)
             reserved == [i \in 1..((l.entry_size - l.string_size) \div INT_SIZE - 3) |-> 9]
         IN  PackS(l.string_size, e.file_name)
             \o PackInts(<<e.file_id, e.file_offset, e.file_size>> \o reserved)
             \o ForeignEntryBytes(l, Tail(entries))

ForeignArchive(l, entries) ==
    LET data_start == PAC_HEADER_SIZE + Len(entries) * l.entry_size
    IN  PAC_PREFIX
        \o PackInts(<<data_start, data_start + Len(Payload), Len(entries),
                      1, l.string_size, 0, 0>>)
        \o ForeignEntryBytes(l, entries)
        \o Payload

----------------------------------------------------------------------------
(* State *)

NoBuilt ==
    [string_size |-> 0, file_count |-> 0, entry_size |-> 0, iters |-> 0,
     total_file_size |-> 0, data_start |-> 0, total_size |-> 0, file_entries |-> <<>>]

NoLayout == [string_size |-> 0, entry_size |-> 0]

Blank ==
    /\ err = "ok"
    /\ built = NoBuilt
    /\ hdr = HeaderFailure("ok")
    /\ file_list = <<>>
    /\ ext_filter = NoFilter
    /\ written = <<>>

(* A source directory, no archive yet. *)
Init ==
    /\ dir_files \in FileLists \cup {ScenarioFiles}
    /\ layout = NoLayout
    /\ pac = <<>>
    /\ src_entries = <<>>
    /\ pc = "start"
    /\ Blank

(* A list of names for _parse_file_list. *)
InitLayout ==
    /\ dir_files \in LayoutFileLists
    /\ layout = NoLayout
    /\ pac = <<>>
    /\ src_entries = <<>>
    /\ pc = "names"
    /\ Blank

(* A file list and a layout for _build_file_entries. *)
InitEntries ==
    /\ dir_files \in EntryFileLists
    /\ layout \in EntryLayouts
    /\ pac = <<>>
    /\ src_entries = <<>>
    /\ pc = "layout"
    /\ Blank

(* Bytes for _parse_header. *)
InitHeader ==
    /\ dir_files = <<>>
    /\ layout = NoLayout
    /\ pac \in HeaderInputs
    /\ src_entries = <<>>
    /\ pc = "input"
    /\ Blank

(* An archive some other producer wrote. *)
InitRead ==
    /\ dir_files = <<>>
    /\ layout \in ForeignLayouts
    /\ src_entries \in ForeignDirectories
    /\ pac = ForeignArchive(layout, src_entries)
    /\ pc = "built"
    /\ Blank

----------------------------------------------------------------------------
(* Operations *)

(* create_pac(file_dir, out_file): create_filter only shortens the list, and
   every list is a directory of Init. *)
CreatePac ==
    /\ pc = "start"
    /\ \E out_file \in OutFiles :
          LET r == CreatePacResult(dir_files, out_file)
          IN  /\ err' = r.err
              /\ built' = r.built
              /\ pac' = IF r.err = "ok" THEN r.bytes ELSE pac
              /\ pc' = IF r.err = "ok" THEN "built" ELSE "create_failed"
    /\ UNCHANGED <<dir_files, layout, src_entries, hdr, file_list, ext_filter, written>>

(* The filters extract_pac may be given: None, or a predicate; a predicate is
   asked about the entries of the archive only. *)
Filters(pac_contents) ==
    {NoFilter} \cup {Accepting(S) : S \in SUBSET Range(EnumeratePacResult(pac_contents).file_list)}

(* extract_pac(pac_path, out_dir, extract_filter) *)
ExtractPac ==
    /\ pc = "built"
    /\ \E f \in Filters(pac) :
          LET r == ExtractPacResult(pac, f)
          IN  /\ ext_filter' = f
              /\ err' = r.err
              /\ file_list' = r.file_list
              /\ written' = r.written
              /\ pc' = IF r.err = "ok" THEN "extracted" ELSE "extract_failed"
    /\ UNCHANGED <<dir_files, layout, pac, src_entries, built, hdr>>

(* enumerate_pac(pac_path) *)
EnumeratePac ==
    /\ pc = "built"
    /\ LET r == EnumeratePacResult(pac)
       IN  /\ err' = r.err
           /\ file_list' = r.file_list
           /\ pc' = IF r.err = "ok" THEN "enumerated" ELSE "enumerate_failed"
    /\ UNCHANGED <<dir_files, layout, pac, src_entries, built, hdr, ext_filter, written>>

(* _parse_file_list(file_list) *)
ParseFileListCall ==
    /\ pc = "names"
    /\ LET p == ParseFileList(dir_files)
       IN  built' = [NoBuilt EXCEPT !.string_size = p.string_size,
                                    !.file_count = p.file_count,
                                    !.entry_size = p.entry_size,
                                    !.iters = p.iters,
                                    !.total_file_size = p.total_file_size]
    /\ pc' = "derived"
    /\ UNCHANGED <<dir_files, layout, pac, src_entries, err, hdr, file_list,
                   ext_filter, written>>

(* _build_file_entries(parsed_file_list, string_size, entry_size) *)
BuildFileEntriesCall ==
    /\ pc = "layout"
    /\ LET r == BuildFileEntries(ParsedFileList(dir_files), layout.string_size,
                                 layout.entry_size)
       IN  /\ err' = r.err
           /\ built' = [NoBuilt EXCEPT !.string_size = layout.string_size,
                                       !.entry_size = layout.entry_size,
                                       !.file_count = Len(dir_files),
                                       !.file_entries = r.bytes]
    /\ pc' = "entries"
    /\ UNCHANGED <<dir_files, layout, pac, src_entries, hdr, file_list, ext_filter,
                   written>>

(* _parse_header(pac_contents) *)
ParseHeaderCall ==
    /\ pc = "input"
    /\ hdr' = ParseHeader(pac)
    /\ err' = hdr'.err
    /\ pc' = "parsed"
    /\ UNCHANGED <<dir_files, layout, pac, src_entries, built, file_list, ext_filter,
                   written>>

Next == CreatePac \/ ExtractPac \/ EnumeratePac
Spec == Init /\ [][Next]_vars

NextLayout == ParseFileListCall
SpecLayout == InitLayout /\ [][NextLayout]_vars

NextEntries == BuildFileEntriesCall
SpecEntries == InitEntries /\ [][NextEntries]_vars

NextHeader == ParseHeaderCall
SpecHeader == InitHeader /\ [][NextHeader]_vars

NextRead == ExtractPac \/ EnumeratePac
SpecRead == InitRead /\ [][NextRead]_vars

----------------------------------------------------------------------------
(* Properties *)

(* The sum of the sizes of the files before the i-th of the list. *)
RECURSIVE SizeBefore(_, _)
SizeBefore(files, i) ==
    IF i <= 1 THEN 0 ELSE SizeBefore(files, i - 1) + Len(files[i - 1].data)

(* The bytes a source file list holds, as a set of named files. *)
NamedFiles(files) == {[name |-> files[i].name, data |-> files[i].data] : i \in 1..Len(files)}

CreateDone == pc \in {"built", "create_failed"}

(* C1: round trip.  For every directory of files with unique base names,
   create_pac succeeds (given an out_file it accepts), extract_pac of the
   archive succeeds, and without a filter the files written are exactly the
   source files: same names, same bytes, no other file. *)
C1_RoundTrip ==
    /\ pc = "create_failed" => err = ErrExtension
    /\ pc # "extract_failed"
    /\ (pc = "extracted" /\ ~ext_filter.given) =>
          /\ Len(written) = Len(dir_files)
          /\ Range(written) = NamedFiles(dir_files)

(* C2: alignment.  The layout _parse_file_list derives has string_size a
   multiple of 4 and at least the longest base name, entry_size a multiple of
   16 and at least 2 * string_size, and the loop that grows entry_size ends
   after at most string_size / 4 + 3 steps of 4 bytes. *)
C2_Alignment ==
    pc = "derived" =>
        /\ built.string_size % 4 = 0
        /\ \A i \in 1..Len(dir_files) : built.string_size >= Len(dir_files[i].name)
        /\ built.entry_size % 16 = 0
        /\ built.entry_size >= 2 * built.string_size
        /\ built.entry_size = built.string_size + 4 * built.iters
        /\ built.iters <= built.string_size \div 4 + 3

C2_Witness ==
    /\ pc = "derived"
    /\ Len(dir_files) = 2
    /\ Len(dir_files[1].name) = 9
    /\ built.string_size = 12
    /\ built.entry_size = 32
    /\ built.iters = 5

(* C3: the scenario.  Building from a.txt ("abc") and bb.txt ("xy") succeeds
   with string_size 8, entry_size 16, file_count 2, data_start 64 and
   total_size 69, and extracting the archive gives the two files back. *)
C3_Scenario ==
    dir_files = ScenarioFiles =>
        /\ pc = "create_failed" => err = ErrExtension
        /\ CreateDone =>
              /\ built.string_size = 8
              /\ built.entry_size = 16
              /\ built.file_count = 2
              /\ built.data_start = 64
              /\ built.total_size = 69
        /\ pc # "extract_failed"
        /\ (pc = "extracted" /\ ~ext_filter.given) =>
              Range(written) = NamedFiles(ScenarioFiles)

(* C4: header consistency.  For an input that holds a whole header behind the
   magic, _parse_header either fails with the format error or returns an
   entry_size with file_count * entry_size = data_start - 32, and it fails with
   the format error whenever data_start - 32 is no exact multiple of
   file_count; an input without the magic fails with the format error. *)
C4_HeaderOutcome ==
    pc = "parsed" =>
        IF ~StartsWith(pac, PAC_PREFIX) THEN err \in FormatErrors
        ELSE Len(pac) >= PAC_HEADER_SIZE =>
            LET data_start == UnpackI(pac, 4)
                file_count == UnpackI(pac, 12)
                multiple == IF file_count = 0 THEN data_start = 32
                            ELSE (data_start - 32) % file_count = 0
            IN  /\ \/ err \in FormatErrors
                   \/ err = "ok" /\ file_count * hdr.entry_size = data_start - 32
                /\ ~multiple => err \in FormatErrors

(* The entries of the foreign directory a filter lets through. *)
SrcKept ==
    SelectSeq(src_entries, LAMBDA e : ~ext_filter.given \/ e \in ext_filter.accepts)

(* The bytes of the payload region an entry names: `size` bytes from `offset`,
   as far as the payload reaches. *)
PayloadOf(e) ==
    [k \in 1..Min(e.file_size, Len(Payload) - e.file_offset) |-> Payload[e.file_offset + k]]

(* C5: filter correctness.  extract_pac writes one file for each entry the
   filter accepts, in directory order, named as the entry and holding the
   entry's payload bytes, and nothing for the others; with no filter it writes
   every entry. *)
C5_FilterCorrectness ==
    pc = "extracted" =>
        /\ Len(written) = Len(SrcKept)
        /\ \A i \in 1..Len(written) :
              /\ written[i].name = SrcKept[i].file_name
              /\ written[i].data = PayloadOf(SrcKept[i])

C5_Witness ==
    /\ pc = "extracted"
    /\ ext_filter.given
    /\ Len(src_entries) = 2
    /\ Len(written) = 1
    /\ written[1].name = src_entries[2].file_name
    /\ written[1].data = <<202, 203>>

(* An entry whose name is longer than the name column. *)
TooLong == \E i \in 1..Len(dir_files) : Len(dir_files[i].name) > layout.string_size

(* A layout the writer derives: string_size aligned, entry_size grown from it. *)
WriterLayout ==
    /\ layout.string_size % INT_SIZE = 0
    /\ layout.entry_size =
          EntrySizeLoop(layout.string_size, 2 * layout.string_size, 0).entry_size

(* C6: name too long.  With a layout of the writer, _build_file_entries given a
   base name longer than string_size fails with the format error and emits no
   entry; when it succeeds, every name stands null-padded on the right in
   exactly string_size bytes. *)
C6_NameTooLong ==
    (pc = "entries" /\ WriterLayout) =>
        /\ TooLong => (err \in FormatErrors /\ built.file_entries = <<>>)
        /\ err = "ok" =>
              \A i \in 1..Len(dir_files) :
                  SubSeq(built.file_entries,
                         (i - 1) * layout.entry_size + 1,
                         (i - 1) * layout.entry_size + layout.string_size)
                  = dir_files[i].name \o Zeros(layout.string_size - Len(dir_files[i].name))

(* The directory entry of the i-th file, cut out of the directory bytes. *)
EntryBytes(i) ==
    SubSeq(built.file_entries, (i - 1) * built.entry_size + 1, i * built.entry_size)

(* C7: entry width.  For a non-empty file list the padding count
   (entry_size - string_size) / 4 - 3 is not negative, the directory is built,
   it is file_count * entry_size bytes long, and each entry is the name in
   string_size bytes, then id, offset and size, then zero padding. *)
C7_EntryWidth ==
    (CreateDone /\ dir_files # <<>>) =>
        /\ (built.entry_size - built.string_size) \div 4 - 3 >= 0
        /\ err \in {"ok", ErrExtension}
        /\ Len(built.file_entries) = Len(dir_files) * built.entry_size
        /\ \A i \in 1..Len(dir_files) :
              /\ SubSeq(EntryBytes(i), 1, Len(dir_files[i].name)) = dir_files[i].name
              /\ UnpackI(EntryBytes(i), built.string_size + 8) = Len(dir_files[i].data)
              /\ \A k \in (built.string_size + 13)..built.entry_size : EntryBytes(i)[k] = 0

(* C8: build size.  create_pac never raises the size-mismatch error, and the
   archive it writes has data_start = 32 + file_count * entry_size and
   total_size = data_start + the sum of the file sizes in its header, and is
   total_size bytes long. *)
C8_BuildSize ==
    /\ err # ErrTotalSize
    /\ pc \notin {"start", "create_failed"} =>
          /\ UnpackI(pac, 12) = Len(dir_files)
          /\ UnpackI(pac, 4) = 32 + Len(dir_files) * built.entry_size
          /\ UnpackI(pac, 8) = UnpackI(pac, 4) + SizeBefore(dir_files, Len(dir_files) + 1)
          /\ Len(pac) = UnpackI(pac, 8)

C8_Witness ==
    /\ pc = "built"
    /\ Len(dir_files) = 2
    /\ built.entry_size = 32
    /\ Len(pac) = 32 + 2 * 32 + 3

(* C9: tight packing.  In the directory the writer builds, the i-th entry has
   id i - 1 and offset the sum of the sizes before it, and the payload bytes at
   that offset are the i-th file's contents. *)
C9_TightPacking ==
    pc = "built" =>
        \A i \in 1..Len(dir_files) :
            LET base == (i - 1) * built.entry_size + built.string_size
                offset == UnpackI(built.file_entries, base + 4)
                size == UnpackI(built.file_entries, base + 8)
            IN  /\ UnpackI(built.file_entries, base) = i - 1
                /\ offset = SizeBefore(dir_files, i)
                /\ size = Len(dir_files[i].data)
                /\ SubSeq(pac, built.data_start + offset + 1,
                          built.data_start + offset + size) = dir_files[i].data

C9_Witness ==
    /\ pc = "built"
    /\ Len(dir_files) = 2
    /\ Len(dir_files[1].data) = 2
    /\ Len(dir_files[2].data) = 1
    /\ UnpackI(built.file_entries, built.entry_size + built.string_size + 4) = 2

(* C10: stored offsets.  The bytes written for an entry of a foreign archive
   are archive[data_start + offset : data_start + offset + size] for the
   entry's own stored offset and size, whatever the other entries hold. *)
C10_StoredOffsets ==
    pc = "extracted" =>
        LET data_start == PAC_HEADER_SIZE + Len(src_entries) * layout.entry_size
        IN  /\ Len(written) = Len(SrcKept)
            /\ \A i \in 1..Len(written) :
                  LET from == Min(data_start + SrcKept[i].file_offset, Len(pac))
                      to == Min(from + SrcKept[i].file_size, Len(pac))
                  IN  written[i].data = SubSeq(pac, from + 1, to)

(* Two entries stored out of order and overlapping. *)
C10_Witness ==
    /\ pc = "extracted"
    /\ ~ext_filter.given
    /\ Len(src_entries) = 2
    /\ src_entries[1].file_offset = 1
    /\ src_entries[2].file_offset = 0
    /\ written[1].data = <<202, 203>>
    /\ written[2].data = <<201, 202>>

====
